---------------------------- MODULE Spec2Model ----------------------------
(***************************************************************************)
(* chess-gpt-advisor: the content script (position extractor, change       *)
(* watcher, suggestion orchestrator) and the backend (suggestion proxy     *)
(* with a per-caller daily quota).                                         *)
(*                                                                         *)
(* JavaScript strings are sequences of one-character strings, so that      *)
(* split, includes and the regular expressions are computed, not assumed.  *)
(* JavaScript values that may be null or undefined are records with a tag  *)
(* field t.                                                                *)
(***************************************************************************)
EXTENDS Integers, Sequences, FiniteSets, TLC

(***************************************************************************)
(* JavaScript values and string primitives                                 *)
(***************************************************************************)
JsNull == [t |-> "null"]
JsUndefined == [t |-> "undefined"]
JsStr(s) == [t |-> "string", s |-> s]

\* !v for the values the model uses: null, undefined and "" are falsy.
Truthy(v) == v.t = "string" /\ v.s # <<>>

Max(a, b) == IF a >= b THEN a ELSE b

RECURSIVE SplitAcc(_, _, _, _, _)
SplitAcc(s, sep, i, cur, acc) ==
    IF i > Len(s) THEN Append(acc, cur)
    ELSE IF s[i] = sep THEN SplitAcc(s, sep, i + 1, <<>>, Append(acc, cur))
    ELSE SplitAcc(s, sep, i + 1, Append(cur, s[i]), acc)

\* String.prototype.split with a one-character separator: "".split(" ") is [""].
Split(s, sep) == SplitAcc(s, sep, 1, <<>>, <<>>)

\* String.prototype.includes: needle occurs in hay as a substring ("" always does).
Includes(hay, needle) ==
    \E i \in 0..(Len(hay) - Len(needle)) : SubSeq(hay, i + 1, i + Len(needle)) = needle

RECURSIVE JoinAcc(_, _, _)
JoinAcc(parts, sep, i) ==
    IF i > Len(parts) THEN <<>>
    ELSE IF i = Len(parts) THEN parts[i]
    ELSE parts[i] \o sep \o JoinAcc(parts, sep, i + 1)

\* Array.prototype.join, used to build the sample inputs.
Join(parts, sep) == JoinAcc(parts, sep, 1)

AllIn(s, cls) == \A i \in 1..Len(s) : s[i] \in cls

DigitChars == {"0", "1", "2", "3", "4", "5", "6", "7", "8", "9"}
RankDigits == <<"1", "2", "3", "4", "5", "6", "7", "8">>
PieceLetters == <<"p", "n", "b", "r", "q", "k", "P", "N", "B", "R", "Q", "K">>
FileChars == {"a", "b", "c", "d", "e", "f", "g", "h"}
CastlingChars == {"K", "Q", "k", "q"}
\* The characters \s matches that the samples use.
Whitespace == {" ", "\t", "\n"}

\* parseInt of one character of '12345678'.
ParseDigit(c) == CHOOSE n \in 1..8 : RankDigits[n] = c

STARTING_FEN ==
    <<"r","n","b","q","k","b","n","r","/","p","p","p","p","p","p","p","p","/",
      "8","/","8","/","8","/","8","/","P","P","P","P","P","P","P","P","/",
      "R","N","B","Q","K","B","N","R"," ","w"," ","K","Q","k","q"," ","-"," ","0"," ","1">>

(***************************************************************************)
(* isValidFEN (content script)                                             *)
(***************************************************************************)
RECURSIVE RankSumFrom(_, _)
\* The inner loop over a rank: the sum of its squares, or -1 at a character
\* that is neither a digit 1-8 nor a piece letter (the code returns false).
RankSumFrom(rank, i) ==
    IF i > Len(rank) THEN 0
    ELSE LET c == rank[i]
             rest == RankSumFrom(rank, i + 1)
         IN  IF rest < 0 THEN -1
             ELSE IF Includes(RankDigits, <<c>>) THEN ParseDigit(c) + rest
             ELSE IF Includes(PieceLetters, <<c>>) THEN 1 + rest
             ELSE -1

RankOk(rank) == RankSumFrom(rank, 1) = 8

\* /^-|[KQkq]+$/ : the alternation binds loosest, so this is (^-) or ([KQkq]+$).
CastlingRegex(s) ==
    \/ Len(s) >= 1 /\ s[1] = "-"
    \/ Len(s) >= 1 /\ s[Len(s)] \in CastlingChars

\* /^(-|[a-h][36])$/
EnPassantRegex(s) ==
    \/ s = <<"-">>
    \/ Len(s) = 2 /\ s[1] \in FileChars /\ s[2] \in {"3", "6"}

\* /^\d+$/
DigitsRegex(s) == Len(s) >= 1 /\ AllIn(s, DigitChars)

isValidFEN(fen) ==
    IF ~Truthy(fen) THEN FALSE
    ELSE LET fenParts == Split(fen.s, " ")
         IN  IF Len(fenParts) # 6 THEN FALSE
             ELSE LET ranks == Split(fenParts[1], "/")
                  IN  /\ Len(ranks) = 8
                      /\ \A r \in 1..8 : RankOk(ranks[r])
                      /\ Includes(<<"w", "b">>, fenParts[2])
                      /\ CastlingRegex(fenParts[3])
                      /\ EnPassantRegex(fenParts[4])
                      /\ DigitsRegex(fenParts[5])
                      /\ DigitsRegex(fenParts[6])

(***************************************************************************)
(* The backend's FEN regular expression                                    *)
(***************************************************************************)
PieceOrDigit == {PieceLetters[i] : i \in 1..12} \cup {RankDigits[i] : i \in 1..8}
RankItem == [cls |-> PieceOrDigit, plus |-> TRUE]
SlashItem == [cls |-> {"/"}, plus |-> FALSE]
SpaceItem == [cls |-> Whitespace, plus |-> FALSE]

\* ^([pnbrqkPNBRQK1-8]+\/){7}[pnbrqkPNBRQK1-8]+\s[bw]\s[kqKQ-]+\s[a-h1-8-]+\s\d+\s\d+$
\* as the sequence of its items: one character of a class, or one or more.
ServerFenRegex ==
    <<RankItem, SlashItem, RankItem, SlashItem, RankItem, SlashItem, RankItem, SlashItem,
      RankItem, SlashItem, RankItem, SlashItem, RankItem, SlashItem, RankItem,
      SpaceItem, [cls |-> {"b", "w"}, plus |-> FALSE],
      SpaceItem, [cls |-> {"k", "q", "K", "Q", "-"}, plus |-> TRUE],
      SpaceItem, [cls |-> FileChars \cup {RankDigits[i] : i \in 1..8} \cup {"-"}, plus |-> TRUE],
      SpaceItem, [cls |-> DigitChars, plus |-> TRUE],
      SpaceItem, [cls |-> DigitChars, plus |-> TRUE]>>

RECURSIVE RunEnd(_, _, _)
\* The position after the longest run of characters of cls starting at i.
RunEnd(s, cls, i) == IF i <= Len(s) /\ s[i] \in cls THEN RunEnd(s, cls, i + 1) ELSE i

RECURSIVE RegexMatchFrom(_, _, _, _)
\* An anchored match of items k.. against s from position i. No item's class
\* meets the class of the item after it, so the greedy run is the only match.
RegexMatchFrom(items, k, s, i) ==
    IF k > Len(items) THEN i = Len(s) + 1
    ELSE IF i > Len(s) \/ s[i] \notin items[k].cls THEN FALSE
    ELSE IF items[k].plus THEN RegexMatchFrom(items, k + 1, s, RunEnd(s, items[k].cls, i))
    ELSE RegexMatchFrom(items, k + 1, s, i + 1)

ServerFenMatch(s) == RegexMatchFrom(ServerFenRegex, 1, s, 1)

(***************************************************************************)
(* State. The backend, the validator on its samples, the extractor on its  *)
(* sample pages and the content script are run one at a time; the          *)
(* variables of the others stand still meanwhile.                          *)
(***************************************************************************)
\* Backend (server.js)
VARIABLES
    nodeEnv,    \* process.env.NODE_ENV ("" when unset)
    storage,    \* the RateLimiterMemory records: key -> [value, msLeft]; msLeft is the
                \* ticks to expiresAt, -1 once it has passed and the timer is late
    pending,    \* per network address: the handlers suspended at the oracle call
    watch,      \* the suspended request the claims follow, and what it met
    resp,       \* the response the last step sent (status 0: it sent none)
    win,        \* per caller: requests in the running window, what is left of it, and
                \* (the same for all callers) whether the service is in its first
                \* window and every request so far was followed, none answered 200 or 400
    healthResp  \* the answer to GET /health the last step sent (status 0: none)

serverVars == <<nodeEnv, storage, pending, watch, resp, win, healthResp>>

\* isValidFEN applied to sample strings
VARIABLES
    fenIn,      \* the argument of isValidFEN
    fenOut      \* [done, valid]: whether it has been called, and what it returned;
                \* [matchDone, matched]: the same for the backend's gameState.match

fenVars == <<fenIn, fenOut>>

\* The page, and getCurrentFEN applied to it
VARIABLES
    dom,        \* what the page's document and window answer to the script's queries
    extracted   \* [done, fen]: whether getCurrentFEN has been called, and its result

extractVars == <<dom, extracted>>

\* Content script
VARIABLES
    js,         \* the script's globals: lastMoves, moveCount, isWhiteTurn, isAnalyzing,
                \* consecutiveErrors, isBackendConnected, connectionCheckInterval
    calls,      \* the getAnalysis invocations suspended at an await, oldest first
    micro,      \* the microtask queue: "notify" (deliver mutation records) and
                \* "resume" (the oldest invocation suspended at await isInActiveGame())
    list,       \* the .move-list element: its textContent, the records queued for
                \* moveObserver, whether it is observed, the mutations made so far
    timers,     \* [retry: the startObserving timeout is set, probes: health fetches in flight]
    ui,         \* the message the last step sent to the panel (type "": none)
    runs        \* what each analyzeMoves call of the last step saw and did

clientVars == <<js, calls, micro, list, timers, ui, runs>>

\* isInActiveGame followed through its retries
VARIABLES
    gameCheck   \* [pc, retryCount, evaluations, first, value, found]: where the call
                \* is (idle, waiting for its timeout, done), the retryCount of its last
                \* evaluation, the evaluations made, what the call returned (a boolean
                \* or a promise), the boolean it yields, what the last evaluation found

checkVars == <<gameCheck>>

vars == <<serverVars, fenVars, extractVars, clientVars, checkVars>>

(***************************************************************************)
(* Backend (server.js): configuration and the rate limiter                 *)
(***************************************************************************)
\* Bounds of the model: the ticks of one window; the requests one caller sends
\* in a window under the production cap, and under the other cap (which no
\* run of this size reaches); the requests every other caller has on record
\* meanwhile; the requests suspended at the oracle at a time.
WindowTicks == 1
MaxPerWindow == 12
MaxPerWindowOther == 3
MaxOthers == 1
MaxInflight == 1

\* Program constants.
ProductionPoints == 10
DefaultPoints == 100
DurationSec == 86400
ReportedCap == 10

NodeEnvs == {"production", "development", ""}
IPs == {"ip1"}
\* The x-user-id header; "" stands for a request without it (both are falsy).
UserIdHeaders == {"", "u1"}
Keys == IPs \cup (UserIdHeaders \ {""})

isProduction == nodeEnv = "production"
\* points: isProduction ? 10 : 100
PointsSwapped == IF isProduction THEN DefaultPoints ELSE ProductionPoints
Points == IF isProduction THEN ProductionPoints ELSE DefaultPoints

\* One tick of the model's clock, in ms: the window is WindowTicks ticks long.
TickMs == (DurationSec * 1000) \div WindowTicks

\* RateLimiterRes of rate-limiter-flexible.
RateLimiterRes(msBeforeNext, consumedPoints) ==
    [msBeforeNext |-> msBeforeNext, consumedPoints |-> consumedPoints]

\* MemoryStorage.set: a fresh record expiring after the duration.
MemoryStorageSet(st, key, value) ==
    [store |-> (key :> [value |-> value, msLeft |-> WindowTicks]) @@ st,
     res |-> RateLimiterRes(WindowTicks * TickMs, value)]

\* MemoryStorage.incrby: add to a record that has not expired, else start afresh.
MemoryStorageIncrby(st, key, value) ==
    IF key \in DOMAIN st /\ st[key].msLeft > 0
    THEN [store |-> [st EXCEPT ![key].value = @ + value],
          res |-> RateLimiterRes(st[key].msLeft * TickMs, st[key].value + value)]
    ELSE MemoryStorageSet(st, key, value)

\* RateLimiterMemory.consume rejects when the points consumed exceed the cap.
OverLimit(consumedPoints) == consumedPoints > Points

\* rateLimiter.consume(key): the record is incremented also when it rejects.
RateLimiterConsume(st, key) ==
    LET inc == MemoryStorageIncrby(st, key, 1)
    IN  [store |-> inc.store, res |-> inc.res, rejected |-> OverLimit(inc.res.consumedPoints)]

\* rateLimiter.get(key): null without a record; it never rejects for the memory store.
RateLimiterGet(st, key) ==
    IF key \in DOMAIN st
    THEN [store |-> st, found |-> TRUE,
          res |-> RateLimiterRes(st[key].msLeft * TickMs, st[key].value)]
    ELSE [store |-> st, found |-> FALSE, res |-> RateLimiterRes(0, 0)]

\* getRemainingRequests(userId); throws selects the catch branch.
getRemainingRequestsConsuming(st, userId, throws) ==
    IF throws THEN [store |-> st, value |-> 0]
    ELSE LET got == RateLimiterConsume(st, userId)
         IN  [store |-> got.store, value |-> Max(0, ReportedCap - got.res.consumedPoints)]
getRemainingRequests(st, userId, throws) ==
    IF throws THEN [store |-> st, value |-> 0]
    ELSE LET got == RateLimiterGet(st, userId)
         IN  [store |-> got.store,
              value |-> IF got.found THEN Max(0, ReportedCap - got.res.consumedPoints)
                        ELSE ReportedCap]

(***************************************************************************)
(* Backend: POST /suggest-move                                             *)
(***************************************************************************)
UserIdOf(req) == IF req.userIdHeader # "" THEN req.userIdHeader ELSE req.ip

\* rateLimitMiddleware: consume one point of the caller, then next() or 429.
rateLimitMiddlewareNoReturn(st, req) ==
    LET c == RateLimiterConsume(st, UserIdOf(req))
    IN  [store |-> c.store, next |-> TRUE,
         status |-> IF c.rejected THEN 429 ELSE 0,
         retryAfter |-> IF c.rejected THEN c.res.msBeforeNext \div 1000 ELSE 0]
rateLimitMiddleware(st, req) ==
    LET c == RateLimiterConsume(st, UserIdOf(req))
    IN  IF c.rejected
        THEN [store |-> c.store, next |-> FALSE, status |-> 429,
              retryAfter |-> c.res.msBeforeNext \div 1000]
        ELSE [store |-> c.store, next |-> TRUE, status |-> 0, retryAfter |-> 0]

\* The request bodies and headers the model sends.
StartMove == <<"s", "t", "a", "r", "t">>
GameStateInputs == {JsUndefined, JsStr(<<"x">>), JsStr(STARTING_FEN)}
CurrentMoveInputs == {JsUndefined, JsStr(StartMove)}
\* A body lacking both fields takes the same branch as one lacking gameState,
\* and one lacking currentMove takes its branch whatever gameState is.
Bodies ==
    {b \in [gameState : GameStateInputs, currentMove : CurrentMoveInputs] :
        Truthy(b.currentMove) \/ b.gameState = JsStr(STARTING_FEN)}
Requests ==
    {[ip |-> ip, userIdHeader |-> h, gameState |-> b.gameState, currentMove |-> b.currentMove] :
        ip \in IPs, h \in UserIdHeaders, b \in Bodies}

\* The callers of GET /health: the request carries no body.
HealthRequests ==
    {[ip |-> ip, userIdHeader |-> h, gameState |-> JsUndefined, currentMove |-> JsUndefined] :
        ip \in IPs, h \in UserIdHeaders}

\* gameState.match(regex) for each body the model sends, computed once.
GameStateMatches == {g \in GameStateInputs : Truthy(g) /\ ServerFenMatch(g.s)}

GameStateMatch(g) ==
    IF g \in GameStateInputs THEN g \in GameStateMatches ELSE ServerFenMatch(g.s)

\* The handler up to the oracle call: 400 or the call.
suggestMoveValidate(req) ==
    IF ~Truthy(req.gameState) \/ ~Truthy(req.currentMove)
    THEN [status |-> 400, error |-> "Missing required game information", callOracle |-> FALSE]
    ELSE IF ~GameStateMatch(req.gameState)
    THEN [status |-> 400, error |-> "Invalid chess position format", callOracle |-> FALSE]
    ELSE [status |-> 0, error |-> "", callOracle |-> TRUE]

\* app.post('/suggest-move', rateLimitMiddleware, handler) up to the first
\* suspension: the handler runs only when the middleware called next().
PostSuggestMoveValidateFirst(st, req) ==
    LET mw == rateLimitMiddleware(st, req)
        h == suggestMoveValidate(req)
    IN  IF h.status = 400
        THEN [store |-> st, status |-> 400, error |-> h.error, retryAfter |-> 0,
              callOracle |-> FALSE]
        ELSE [store |-> mw.store, status |-> mw.status,
              error |-> IF mw.next THEN "" ELSE "Too many requests. Please try again later.",
              retryAfter |-> mw.retryAfter, callOracle |-> mw.next]
PostSuggestMove(st, req) ==
    LET mw == rateLimitMiddleware(st, req)
        h == suggestMoveValidate(req)
    IN  IF mw.next
        THEN [store |-> mw.store,
              status |-> IF mw.status # 0 THEN mw.status ELSE h.status,
              error |-> h.error, retryAfter |-> mw.retryAfter, callOracle |-> h.callOracle]
        ELSE [store |-> mw.store, status |-> mw.status,
              error |-> "Too many requests. Please try again later.",
              retryAfter |-> mw.retryAfter, callOracle |-> FALSE]

\* What the claims measure a request against: the caller's record while its
\* window runs, and the allowance left under the configured cap.
LiveConsumed(st, key) == IF key \in DOMAIN st /\ st[key].msLeft > 0 THEN st[key].value ELSE 0
Allowance(st, key) == Max(0, Points - LiveConsumed(st, key))

RequestBound == IF isProduction THEN MaxPerWindow ELSE MaxPerWindowOther

NoWindow == [n |-> 0, left |-> 0, allFailed |-> TRUE]
NoWatch == [on |-> FALSE, key |-> "", ip |-> "", before |-> 0, nth |-> 0]
NoResponse ==
    [status |-> 0, error |-> "", retryAfter |-> 0, remainingRequests |-> 0, details |-> "",
     oracle |-> FALSE, lookupThrew |-> FALSE, watched |-> FALSE, key |-> "", ip |-> "",
     hasGameState |-> FALSE, before |-> 0, consumedBefore |-> 0, consumedAfter |-> 0, nth |-> 0]

InFlight == LET ip1 == CHOOSE ip \in IPs : TRUE IN pending[ip1]

NoHealth == [status |-> 0, body |-> "", oracle |-> FALSE, exhausted |-> FALSE]

\* GET /health behind the rate limiter.
getHealthLimited(st, req) ==
    LET mw == rateLimitMiddleware(st, req)
    IN  IF mw.next THEN [store |-> mw.store, status |-> 200, body |-> "ok", oracle |-> FALSE]
        ELSE [store |-> mw.store, status |-> 429, body |-> "", oracle |-> FALSE]
\* app.get('/health', handler): no middleware; res.json answers 200.
getHealth(st, req) == [store |-> st, status |-> 200, body |-> "ok", oracle |-> FALSE]

ServerInit ==
    /\ nodeEnv \in NodeEnvs
    /\ storage = <<>>
    /\ pending = [ip \in IPs |-> 0]
    /\ watch = NoWatch
    /\ resp = NoResponse
    /\ win = [k \in Keys |-> NoWindow]
    /\ healthResp = NoHealth

\* A POST /suggest-move arrives: middleware and handler run to the response
\* (429, 400) or to the suspension at the oracle call, where the claims may
\* choose to follow this request to its 200 or 500.
Request(req) ==
    /\ LiveConsumed(storage, UserIdOf(req)) < RequestBound
    /\ \/ LiveConsumed(storage, UserIdOf(req)) < MaxOthers
       \/ \A k \in DOMAIN storage \ {UserIdOf(req)} : storage[k].value <= MaxOthers
    /\ LET key == UserIdOf(req)
           out == PostSuggestMove(storage, req)
           fresh == win[key].left = 0
           nth == IF fresh THEN 1 ELSE win[key].n + 1
           met == [NoResponse EXCEPT
                     !.status = out.status, !.error = out.error,
                     !.retryAfter = out.retryAfter, !.oracle = out.callOracle,
                     !.watched = TRUE, !.key = key, !.ip = req.ip,
                     !.hasGameState = Truthy(req.gameState),
                     !.before = Allowance(storage, key),
                     !.consumedBefore = LiveConsumed(storage, key),
                     !.consumedAfter = LiveConsumed(out.store, key),
                     !.nth = nth]
       IN  /\ storage' = out.store
           /\ \E followed \in BOOLEAN :
                /\ followed => out.callOracle /\ ~watch.on
                /\ win' = [k \in Keys |->
                             [n |-> IF k = key THEN nth ELSE win[k].n,
                              left |-> IF k = key /\ fresh THEN WindowTicks ELSE win[k].left,
                              allFailed |-> /\ win[k].allFailed
                                            /\ followed \/ out.status = 429]]
                /\ IF out.callOracle
                   THEN /\ InFlight < MaxInflight
                        /\ pending' = [pending EXCEPT ![req.ip] = @ + 1]
                        /\ watch' = IF followed
                                    THEN [on |-> TRUE, key |-> key, ip |-> req.ip,
                                          before |-> met.before, nth |-> nth]
                                    ELSE watch
                        /\ resp' = IF out.status = 0 THEN NoResponse ELSE met
                   ELSE /\ UNCHANGED <<pending, watch>>
                        /\ resp' = met
    /\ healthResp' = NoHealth
    /\ UNCHANGED <<nodeEnv, fenVars, checkVars, extractVars, clientVars>>

\* A handler suspended at the oracle call, for a request from ip: the one the
\* claims follow (w) or another.
Suspended(ip, w) ==
    IF w THEN watch.on /\ watch.ip = ip
    ELSE pending[ip] > (IF watch.on /\ watch.ip = ip THEN 1 ELSE 0)

\* What the response of a resumed handler is measured against.
Resumed(ip, w) ==
    [NoResponse EXCEPT !.oracle = TRUE, !.ip = ip, !.watched = w, !.hasGameState = TRUE,
                       !.key = IF w THEN watch.key ELSE "",
                       !.before = IF w THEN watch.before ELSE 0,
                       !.nth = IF w THEN watch.nth ELSE 0]

\* The oracle call resolves: getRemainingRequests(req.ip), then the 200 response.
OracleReturn(ip, w, throws) ==
    /\ Suspended(ip, w)
    /\ LET rem == getRemainingRequests(storage, ip, throws)
       IN  /\ storage' = rem.store
           /\ resp' = [Resumed(ip, w) EXCEPT
                         !.status = 200, !.remainingRequests = rem.value,
                         !.lookupThrew = throws]
    /\ pending' = [pending EXCEPT ![ip] = @ - 1]
    /\ watch' = IF w THEN NoWatch ELSE watch
    /\ win' = [k \in Keys |-> [win[k] EXCEPT !.allFailed = FALSE]]
    /\ healthResp' = NoHealth
    /\ UNCHANGED <<nodeEnv, fenVars, checkVars, extractVars, clientVars>>

\* A catch block that gives the consumed point back to the caller.
OracleFailRefunds(ip, w) ==
    /\ Suspended(ip, w)
    /\ resp' = [Resumed(ip, w) EXCEPT
                  !.status = 500, !.error = "Failed to generate move suggestion",
                  !.details = IF isProduction THEN "Internal server error"
                              ELSE "error.message"]
    /\ storage' = IF w /\ watch.key \in DOMAIN storage
                  THEN [storage EXCEPT ![watch.key].value = Max(0, @ - 1)]
                  ELSE storage
    /\ pending' = [pending EXCEPT ![ip] = @ - 1]
    /\ watch' = IF w THEN NoWatch ELSE watch
    /\ healthResp' = NoHealth
    /\ UNCHANGED <<nodeEnv, win, fenVars, checkVars, extractVars, clientVars>>
\* The oracle call rejects (or the completion cannot be read): the catch block's 500.
OracleFail(ip, w) ==
    /\ Suspended(ip, w)
    /\ resp' = [Resumed(ip, w) EXCEPT
                  !.status = 500, !.error = "Failed to generate move suggestion",
                  !.details = IF isProduction THEN "Internal server error"
                              ELSE "error.message"]
    /\ pending' = [pending EXCEPT ![ip] = @ - 1]
    /\ watch' = IF w THEN NoWatch ELSE watch
    /\ healthResp' = NoHealth
    /\ UNCHANGED <<nodeEnv, storage, win, fenVars, checkVars, extractVars, clientVars>>

\* Time passes: every running record and window has one tick less left.
Tick ==
    /\ \E k \in DOMAIN storage : storage[k].msLeft > 0
    /\ storage' = [k \in DOMAIN storage |->
                     [storage[k] EXCEPT !.msLeft = IF @ > 1 THEN @ - 1 ELSE -1]]
    /\ win' = [k \in Keys |->
                 IF win[k].left > 1 THEN [win[k] EXCEPT !.left = @ - 1, !.allFailed = FALSE]
                 ELSE [NoWindow EXCEPT !.allFailed = FALSE]]
    /\ resp' = NoResponse
    /\ healthResp' = NoHealth
    /\ UNCHANGED <<nodeEnv, pending, watch, fenVars, checkVars, extractVars, clientVars>>

\* The timer MemoryStorage.set armed fires and deletes the expired record.
RecordTimeout(key) ==
    /\ key \in DOMAIN storage
    /\ storage[key].msLeft < 0
    /\ storage' = [k \in DOMAIN storage \ {key} |-> storage[k]]
    /\ resp' = NoResponse
    /\ healthResp' = NoHealth
    /\ UNCHANGED <<nodeEnv, pending, watch, win, fenVars, checkVars, extractVars, clientVars>>

\* A GET /health arrives, from a caller with quota left or without.
Health(req) ==
    /\ LET out == getHealth(storage, req)
       IN  /\ storage' = out.store
           /\ pending' = [pending EXCEPT ![req.ip] = @ + (IF out.oracle THEN 1 ELSE 0)]
           /\ healthResp' = [status |-> out.status, body |-> out.body, oracle |-> out.oracle,
                             exhausted |-> Allowance(storage, UserIdOf(req)) = 0]
    /\ resp' = NoResponse
    /\ UNCHANGED <<nodeEnv, watch, win, fenVars, checkVars, extractVars, clientVars>>

ServerNext ==
    \/ \E req \in Requests : Request(req)
    \/ \E req \in HealthRequests : Health(req)
    \/ \E ip \in IPs, w \in BOOLEAN, throws \in BOOLEAN : OracleReturn(ip, w, throws)
    \/ \E ip \in IPs, w \in BOOLEAN : OracleFail(ip, w)
    \/ Tick
    \/ \E key \in Keys : RecordTimeout(key)

(***************************************************************************)
(* isValidFEN applied to sample strings                                    *)
(***************************************************************************)
Chars8 == <<"8", "/", "8", "/", "8", "/", "8", "/", "8", "/", "8", "/", "8", "/", "8">>
StartPlacement == SubSeq(STARTING_FEN, 1, 43)

\* Piece placements: two well-formed ones; seven ranks; a rank of nine
\* squares; a rank with a foreign letter; an empty rank.
PlacementSamples ==
    {StartPlacement, Chars8,
     SubSeq(Chars8, 1, 13),
     <<"9">> \o SubSeq(Chars8, 2, 15),
     <<"4", "p", "4">> \o SubSeq(Chars8, 2, 15),
     <<"7", "x">> \o SubSeq(Chars8, 2, 15),
     SubSeq(Chars8, 1, 2) \o SubSeq(Chars8, 2, 15)}
TurnSamples == {<<"w">>, <<"b">>, <<>>, <<"w", "b">>, <<"x">>}
CastlingSamples ==
    {<<"-">>, <<"K", "Q", "k", "q">>, <<"k">>, <<>>, <<"-", "x">>, <<"x", "K">>, <<"K", "x">>}
EnPassantSamples == {<<"-">>, <<"e", "3">>, <<"a", "6">>, <<"e", "4">>, <<"e", "3", "6">>, <<>>}
HalfMoveSamples == {<<"0">>, <<"1", "2">>, <<>>, <<"x">>}
\* The last one makes a seventh field.
FullMoveSamples == {<<"1">>, <<"4", "0">>, <<"1", "a">>, <<"1", " ", "1">>}

\* Not a string; the empty string; five fields.
OtherFenInputs == {JsNull, JsStr(<<>>), JsStr(SubSeq(STARTING_FEN, 1, 54))}

NoFenResult == [done |-> FALSE, valid |-> FALSE, matchDone |-> FALSE, matched |-> FALSE]

\* The argument is one sample of each field joined by spaces, or one of the others.
FenInit ==
    /\ \/ \E p \in PlacementSamples, t \in TurnSamples, c \in CastlingSamples,
             e \in EnPassantSamples, h \in HalfMoveSamples, f \in FullMoveSamples :
               fenIn = JsStr(Join(<<p, t, c, e, h, f>>, <<" ">>))
       \/ fenIn \in OtherFenInputs
    /\ fenOut = NoFenResult

FenIdle ==
    /\ fenIn = JsNull
    /\ fenOut = NoFenResult

\* isValidFEN(fenIn) is called.
ValidateFen ==
    /\ ~fenOut.done
    /\ fenOut' = [fenOut EXCEPT !.done = TRUE, !.valid = isValidFEN(fenIn)]
    /\ UNCHANGED <<fenIn, serverVars, checkVars, extractVars, clientVars>>

\* The backend's handler gets fenIn as gameState: past the test !gameState it
\* evaluates gameState.match(regex).
MatchFen ==
    /\ ~fenOut.matchDone
    /\ Truthy(fenIn)
    /\ fenOut' = [fenOut EXCEPT !.matchDone = TRUE, !.matched = ServerFenMatch(fenIn.s)]
    /\ UNCHANGED <<fenIn, serverVars, checkVars, extractVars, clientVars>>

FenNext ==
    \/ ValidateFen
    \/ MatchFen

(***************************************************************************)
(* The page, isInActiveGame and getCurrentFEN (content script)             *)
(***************************************************************************)
\* Bounds of the sample pages: the position sources that carry a value at
\* once, and the game indicators other than the board elements present at once.
MaxSources == 2
MaxIndicators == 1

MAX_RETRIES == 3

\* A different well-formed FEN for each source: the starting position at full
\* move n. BadFen is a value no validator accepts.
FenOf(n) == JsStr(SubSeq(STARTING_FEN, 1, 55) \o <<RankDigits[n]>>)
BadFen == JsStr(<<"x">>)
\* The starting position with 'wb' as side to move.
OddFen == JsStr(SubSeq(STARTING_FEN, 1, 45) \o <<"b">> \o SubSeq(STARTING_FEN, 46, 56))
AttrSamples(n) == {JsNull, BadFen, FenOf(n)}
SourceSamples == UNION {AttrSamples(n) : n \in 1..8} \cup {JsUndefined, OddFen}
ValidSourceSamples == {v \in SourceSamples : isValidFEN(v)}

\* isValidFEN, with the results for the sample values computed once.
isValidFENOf(v) == IF v \in SourceSamples THEN v \in ValidSourceSamples ELSE isValidFEN(v)

B2N(b) == IF b THEN 1 ELSE 0
HasValue(v) == v.t \notin {"null", "undefined"}

\* <wc-chess-board position=...>
WcBoardSamples ==
    {[present |-> FALSE, position |-> JsNull]}
    \cup {[present |-> TRUE, position |-> v] : v \in AttrSamples(1)}
\* <chess-board fen=... position=... data-fen=... data-position=...>
ChessBoardSamples ==
    {[present |-> FALSE, attrs |-> <<JsNull, JsNull, JsNull, JsNull>>]}
    \cup {[present |-> TRUE, attrs |-> <<a, b, c, d>>] :
            a \in AttrSamples(2), b \in AttrSamples(3),
            c \in AttrSamples(4), d \in AttrSamples(5)}
\* window.game: absent; without getFen; getFen throws; getFen returns a value.
GameSamples ==
    {[kind |-> k, value |-> JsUndefined] : k \in {"absent", "noGetFen", "throws"}}
    \cup {[kind |-> "returns", value |-> v] : v \in {JsUndefined, BadFen, FenOf(6)}}
\* .board-layout-main, its .board-container and the data-board-position of that
LayoutSamples ==
    {[present |-> q, container |-> FALSE, value |-> JsNull] : q \in BOOLEAN}
    \cup {[present |-> TRUE, container |-> TRUE, value |-> v] : v \in AttrSamples(7)}
\* .analysis-board, its .board and the data-fen of that
AnalysisSamples ==
    {[present |-> q, board |-> FALSE, value |-> JsNull] : q \in BOOLEAN}
    \cup {[present |-> TRUE, board |-> TRUE, value |-> v] : v \in AttrSamples(8)}
IndicatorNames == {"path", "board", "moveList", "gameControls", "playerRow", "clock"}
IndicatorSamples == {i \in SUBSET IndicatorNames : Cardinality(i) <= MaxIndicators}

AttrCount(cb) ==
    B2N(HasValue(cb.attrs[1])) + B2N(HasValue(cb.attrs[2]))
    + B2N(HasValue(cb.attrs[3])) + B2N(HasValue(cb.attrs[4]))
SourceCount(wc, cb, g, l, an) ==
    B2N(HasValue(wc.position)) + AttrCount(cb)
    + B2N(HasValue(g.value)) + B2N(HasValue(l.value)) + B2N(HasValue(an.value))

\* A .board inside .analysis-board is also what document.querySelector('.board') finds.
MkDom(wc, cb, g, l, an, ind) ==
    [pathGame |-> "path" \in ind,
     wcBoard |-> wc, chessBoard |-> cb, game |-> g, layoutMain |-> l, analysisBoard |-> an,
     board |-> an.board \/ "board" \in ind,
     moveList |-> "moveList" \in ind,
     gameControls |-> "gameControls" \in ind,
     playerRow |-> "playerRow" \in ind,
     clock |-> "clock" \in ind]

\* gameIndicators.some(check => check())
GameIndicators(d) ==
    \/ d.pathGame
    \/ d.wcBoard.present
    \/ d.chessBoard.present
    \/ d.board
    \/ d.moveList
    \/ d.gameControls
    \/ d.playerRow
    \/ d.clock

\* isInActiveGame with one retry more.
isInActiveGameExtraRetry(d, retryCount) ==
    LET isInGame == GameIndicators(d)
    IN  IF ~isInGame /\ retryCount <= MAX_RETRIES
        THEN [t |-> "promise"]
        ELSE [t |-> "boolean", b |-> isInGame]
\* What a call of isInActiveGame(retryCount) returns to its caller: a boolean,
\* or the Promise of the retry.
isInActiveGame(d, retryCount) ==
    LET isInGame == GameIndicators(d)
    IN  IF ~isInGame /\ retryCount < MAX_RETRIES
        THEN [t |-> "promise"]
        ELSE [t |-> "boolean", b |-> isInGame]

\* The value in a condition: an object is truthy.
TruthyResult(r) == r.t = "promise" \/ r.b

RECURSIVE FirstValidAttr(_, _)
\* The loop over possibleAttrs: the index of the first attribute whose value
\* is truthy and valid, 0 if there is none.
FirstValidAttr(attrs, i) ==
    IF i > Len(attrs) THEN 0
    ELSE IF Truthy(attrs[i]) /\ isValidFENOf(attrs[i]) THEN i
    ELSE FirstValidAttr(attrs, i + 1)

\* Each method of getCurrentFEN: the value it returns, JsUndefined when it falls through.
Method1(d) ==
    IF d.wcBoard.present /\ Truthy(d.wcBoard.position) /\ isValidFENOf(d.wcBoard.position)
    THEN d.wcBoard.position ELSE JsUndefined
Method2(d) ==
    IF ~d.chessBoard.present THEN JsUndefined
    ELSE LET i == FirstValidAttr(d.chessBoard.attrs, 1)
         IN  IF i > 0 THEN d.chessBoard.attrs[i]
             ELSE IF d.game.kind = "returns" /\ isValidFENOf(d.game.value) THEN d.game.value
             ELSE JsUndefined
Method3(d) ==
    IF /\ d.layoutMain.present /\ d.layoutMain.container
       /\ Truthy(d.layoutMain.value) /\ isValidFENOf(d.layoutMain.value)
    THEN d.layoutMain.value ELSE JsUndefined
Method4(d) ==
    IF /\ d.analysisBoard.present /\ d.analysisBoard.board
       /\ Truthy(d.analysisBoard.value) /\ isValidFENOf(d.analysisBoard.value)
    THEN d.analysisBoard.value ELSE JsUndefined

\* The last test, if (isInActiveGame()), is on the value the call returns.
getCurrentFEN(d) ==
    IF Method1(d) # JsUndefined THEN Method1(d)
    ELSE IF Method2(d) # JsUndefined THEN Method2(d)
    ELSE IF Method3(d) # JsUndefined THEN Method3(d)
    ELSE IF Method4(d) # JsUndefined THEN Method4(d)
    ELSE IF TruthyResult(isInActiveGame(d, 0)) THEN JsStr(STARTING_FEN)
    ELSE JsNull

\* The page is one sample of each element and of the indicators, with at most
\* MaxSources position sources carrying a value.
ExtractInit ==
    /\ \E wc \in WcBoardSamples, cb \in ChessBoardSamples, g \in GameSamples,
          l \in LayoutSamples, an \in AnalysisSamples, ind \in IndicatorSamples :
         /\ SourceCount(wc, cb, g, l, an) <= MaxSources
         /\ dom = MkDom(wc, cb, g, l, an, ind)
    /\ extracted = [done |-> FALSE, fen |-> JsNull]

\* No page is loaded.
ExtractIdle ==
    /\ dom = <<>>
    /\ extracted = [done |-> FALSE, fen |-> JsNull]

\* getCurrentFEN() is called on the page.
Extract ==
    /\ ~extracted.done
    /\ extracted' = [done |-> TRUE, fen |-> getCurrentFEN(dom)]
    /\ UNCHANGED <<dom, serverVars, fenVars, checkVars, clientVars>>

ExtractNext == Extract

(***************************************************************************)
(* isInActiveGame and its retries (content script)                         *)
(***************************************************************************)
\* The pages the check runs on: any of the indicators, the two board elements
\* among them, present or not.
GamePages ==
    {MkDom([present |-> w, position |-> JsNull],
           [present |-> b, attrs |-> <<JsNull, JsNull, JsNull, JsNull>>],
           [kind |-> "absent", value |-> JsUndefined],
           [present |-> FALSE, container |-> FALSE, value |-> JsNull],
           [present |-> FALSE, board |-> FALSE, value |-> JsNull], ind) :
        w \in BOOLEAN, b \in BOOLEAN, ind \in IndicatorSamples}

NoGameCheck ==
    [pc |-> "idle", retryCount |-> 0, evaluations |-> 0, first |-> "",
     value |-> FALSE, found |-> FALSE]

\* One evaluation, made with retryCount, as the n-th of the call: with a
\* boolean the call (or the promise its caller holds) yields it, with a
\* promise the timeout of the next evaluation is set.
Evaluated(d, retryCount, n, first) ==
    LET r == isInActiveGame(d, retryCount)
    IN  [pc |-> IF r.t = "boolean" THEN "done" ELSE "timer",
         retryCount |-> retryCount, evaluations |-> n,
         first |-> IF n = 1 THEN r.t ELSE first,
         value |-> r.t = "boolean" /\ r.b,
         found |-> GameIndicators(d)]

GameCheckInit ==
    /\ dom \in GamePages
    /\ extracted = [done |-> FALSE, fen |-> JsNull]
    /\ gameCheck = NoGameCheck

\* No call of isInActiveGame is followed.
GameCheckIdle == gameCheck = NoGameCheck

\* isInActiveGame() is called.
GameCheckCall ==
    /\ gameCheck.pc = "idle"
    /\ gameCheck' = Evaluated(dom, 0, 1, "")
    /\ UNCHANGED <<dom, extracted, serverVars, fenVars, clientVars>>

\* The timeout fires: resolve(isInActiveGame(retryCount + 1)).
GameCheckRetry ==
    /\ gameCheck.pc = "timer"
    /\ gameCheck' = Evaluated(dom, gameCheck.retryCount + 1, gameCheck.evaluations + 1,
                              gameCheck.first)
    /\ UNCHANGED <<dom, extracted, serverVars, fenVars, clientVars>>

\* The page changes while the timeout is set.
GamePageChanges ==
    /\ gameCheck.pc = "timer"
    /\ dom' \in GamePages \ {dom}
    /\ UNCHANGED <<gameCheck, extracted, serverVars, fenVars, clientVars>>

GameCheckNext ==
    \/ GameCheckCall
    \/ GameCheckRetry
    \/ GamePageChanges

(***************************************************************************)
(* Content script: move-list watcher and suggestion orchestrator           *)
(***************************************************************************)
\* Bounds of the model: the mutations of the move list in a run, the mutation
\* records delivered by one callback, the health probes in flight at a time.
MaxMoves == 2
MaxBatch == 2
MaxProbes == 2

MAX_CONSECUTIVE_ERRORS == 3

\* String.prototype.trim
TrimLeft(s) == SubSeq(s, RunEnd(s, Whitespace, 1), Len(s))
RECURSIVE TrimRight(_)
TrimRight(s) ==
    IF s # <<>> /\ s[Len(s)] \in Whitespace THEN TrimRight(SubSeq(s, 1, Len(s) - 1)) ELSE s
Trim(s) == TrimRight(TrimLeft(s))

RECURSIVE SplitMovesAcc(_, _, _, _)
SplitMovesAcc(s, i, cur, acc) ==
    IF i > Len(s) THEN Append(acc, cur)
    ELSE IF s[i] \in DigitChars
         THEN LET j == RunEnd(s, DigitChars, i)
              IN  IF j <= Len(s) /\ s[j] = "."
                  THEN SplitMovesAcc(s, j + 1, <<>>, Append(acc, cur))
                  ELSE SplitMovesAcc(s, j, cur \o SubSeq(s, i, j - 1), acc)
    ELSE SplitMovesAcc(s, i + 1, Append(cur, s[i]), acc)

\* split(/\d+\./): the separators are the runs of digits followed by a dot.
SplitMoves(s) == SplitMovesAcc(s, 1, <<>>, <<>>)

\* filter(m => m.trim())
FilterNonBlank(parts) == SelectSeq(parts, LAMBDA m : Trim(m) # <<>>)

Chars_start == <<"s", "t", "a", "r", "t">>

formatGameState(moveText) ==
    LET moves == FilterNonBlank(SplitMoves(Trim(moveText)))
    IN  [fullGame |-> Trim(moveText),
         moveCount |-> Len(moves),
         lastMove |-> IF moves # <<>> /\ Trim(moves[Len(moves)]) # <<>>
                      THEN Trim(moves[Len(moves)]) ELSE Chars_start,
         isWhiteTurn |-> Len(Split(moveText, ".")) % 2 = 0]

\* The texts the sample move list shows: empty, and after 1.e4 without and
\* with trailing white space.
MoveTexts ==
    {<<>>,
     <<"1", ".", "e", "4">>,
     <<"1", ".", "e", "4", " ">>}

\* The messages sent with chrome.runtime.sendMessage, and where they are sent:
\* by getAnalysis before an early return (EarlyMessage), on success or in its
\* catch block (ErrorMessage), or by checkBackendConnection (ProbeMessage).
NoMessage == [type |-> "", error |-> "", hint |-> FALSE, by |-> ""]
EarlyMessage(text) ==
    [type |-> "ERROR", error |-> text, hint |-> FALSE, by |-> "getAnalysis"]
ErrorMessage(text, hint) ==
    [type |-> "ERROR", error |-> text, hint |-> hint, by |-> "catch"]
SuggestionMessage ==
    [type |-> "SUGGESTION", error |-> "", hint |-> FALSE, by |-> "getAnalysis"]
ProbeMessage(text) ==
    [type |-> "ERROR", error |-> text, hint |-> FALSE, by |-> "checkBackendConnection"]
MsgStartGame == "Please start or join a game first."
MsgNoServer == "Cannot connect to analysis server. Please check your internet connection."
MsgNoPosition ==
    "Could not detect the board position. Please make sure you are in an active game."
MsgRateLimit == "Rate limit reached. Please wait before requesting more moves."
MsgUnavailable == "Analysis service unavailable"
MsgBadJson == "Unexpected token < in JSON at position 0"
\* The message of the TypeError a fetch rejects with when the network fails.
MsgFailedToFetch == "Failed to fetch"

\* The running script: globals, suspended invocations, microtask queue, and the
\* count of getAnalysis invocations made by the call in progress.
Ctx(j, c, m) == [js |-> j, calls |-> c, micro |-> m, invoked |-> 0]

JsInit ==
    [lastMoves |-> JsNull, moveCount |-> 0, isWhiteTurn |-> TRUE, isAnalyzing |-> FALSE,
     consecutiveErrors |-> 0, isBackendConnected |-> FALSE, connectionCheckInterval |-> TRUE]

\* getAnalysis without the guard: an invocation made while isAnalyzing is set
\* waits like any other.
getAnalysisEnterQueued(c, d, gameState) ==
    LET r == isInActiveGame(d, 0)
    IN  [c EXCEPT !.invoked = @ + 1,
                  !.calls = Append(@, [pc |-> "awaitInGame", inGame |-> r,
                                       lastMove |-> gameState.lastMove,
                                       fen |-> JsNull, status |-> 0]),
                  !.micro = IF r.t = "boolean" THEN Append(@, "resume") ELSE @]
\* getAnalysis up to its first await: the guard, then the call of
\* isInActiveGame, whose value is awaited (a microtask when it is a boolean).
getAnalysisEnter(c, d, gameState) ==
    IF c.js.isAnalyzing THEN [c EXCEPT !.invoked = @ + 1]
    ELSE LET r == isInActiveGame(d, 0)
         IN  [c EXCEPT !.invoked = @ + 1,
                       !.calls = Append(@, [pc |-> "awaitInGame", inGame |-> r,
                                            lastMove |-> gameState.lastMove,
                                            fen |-> JsNull, status |-> 0]),
                       !.micro = IF r.t = "boolean" THEN Append(@, "resume") ELSE @]

\* analyzeMoves without the comparison with lastMoves.
analyzeMovesAlways(c, d, text) ==
    IF ~d.moveList THEN c
    ELSE LET moves == Trim(text)
             gameState == formatGameState(moves)
             c1 == getAnalysisEnter([c EXCEPT !.js.moveCount = @ + 1], d, gameState)
         IN  [c1 EXCEPT !.js.lastMoves = JsStr(moves),
                        !.js.isWhiteTurn = gameState.isWhiteTurn]
analyzeMoves(c, d, text) ==
    IF ~d.moveList THEN c
    ELSE LET moves == Trim(text)
         IN  IF JsStr(moves) # c.js.lastMoves
             THEN LET gameState == formatGameState(moves)
                      c1 == getAnalysisEnter([c EXCEPT !.js.moveCount = @ + 1], d, gameState)
                  IN  [c1 EXCEPT !.js.lastMoves = JsStr(moves),
                                 !.js.isWhiteTurn = gameState.isWhiteTurn]
             ELSE c

RECURSIVE RunRecords(_, _, _, _, _)
\* mutations.forEach(...): one analyzeMoves call per record (the observer is
\* set up for childList and characterData records only), and a note of each.
RunRecords(c, d, text, k, seen) ==
    IF k = 0 THEN [c |-> c, runs |-> seen]
    ELSE LET c1 == analyzeMoves([c EXCEPT !.invoked = 0], d, text)
         IN  RunRecords(c1, d, text, k - 1,
                 Append(seen, [found |-> d.moveList, moves |-> JsStr(Trim(text)),
                               lastBefore |-> c.js.lastMoves, lastAfter |-> c1.js.lastMoves,
                               countBefore |-> c.js.moveCount, countAfter |-> c1.js.moveCount,
                               invoked |-> c1.invoked]))

moveObserver(c, d, text, records) == RunRecords(c, d, text, records, <<>>)

\* startObserving that gives up when the element is missing.
startObservingOnce(c, d, l, t) ==
    IF d.moveList
    THEN LET r == RunRecords(c, d, l.text, 1, <<>>)
         IN  [c |-> r.c, runs |-> r.runs,
              list |-> [l EXCEPT !.observing = TRUE], timers |-> [t EXCEPT !.retry = FALSE]]
    ELSE [c |-> c, runs |-> <<>>, list |-> l, timers |-> [t EXCEPT !.retry = FALSE]]
\* startObserving: with the element, observe it and call analyzeMoves once;
\* without it, set the timeout.
startObserving(c, d, l, t) ==
    IF d.moveList
    THEN LET r == RunRecords(c, d, l.text, 1, <<>>)
         IN  [c |-> r.c, runs |-> r.runs,
              list |-> [l EXCEPT !.observing = TRUE], timers |-> [t EXCEPT !.retry = FALSE]]
    ELSE [c |-> c, runs |-> <<>>, list |-> l, timers |-> [t EXCEPT !.retry = TRUE]]

\* Remove the i-th suspended invocation.
Drop(cs, i) == SubSeq(cs, 1, i - 1) \o SubSeq(cs, i + 1, Len(cs))

\* A finally block that leaves isAnalyzing as it is.
FinallyKeepsGuard(j, cs, i) == [js |-> j, calls |-> Drop(cs, i)]
\* The finally block of invocation i.
Finally(j, cs, i) == [js |-> [j EXCEPT !.isAnalyzing = FALSE], calls |-> Drop(cs, i)]

\* The catch block without the assignment to isBackendConnected.
CatchKeepsFlag(j, cs, i, message) ==
    LET failedToFetch == message = MsgFailedToFetch
        j1 == [j EXCEPT !.consecutiveErrors = @ + 1]
        text == IF failedToFetch THEN MsgNoServer ELSE message
        f == Finally(j1, cs, i)
    IN  [js |-> f.js, calls |-> f.calls,
         ui |-> ErrorMessage(text, j1.consecutiveErrors >= MAX_CONSECUTIVE_ERRORS)]
\* The catch block with the hint from the fourth error on.
CatchHintLate(j, cs, i, message) ==
    LET failedToFetch == message = MsgFailedToFetch
        j1 == [j EXCEPT !.isBackendConnected = IF failedToFetch THEN FALSE ELSE @,
                        !.consecutiveErrors = @ + 1]
        text == IF failedToFetch THEN MsgNoServer ELSE message
        f == Finally(j1, cs, i)
    IN  [js |-> f.js, calls |-> f.calls,
         ui |-> ErrorMessage(text, j1.consecutiveErrors > MAX_CONSECUTIVE_ERRORS)]
\* The catch block, then finally.
Catch(j, cs, i, message) ==
    LET failedToFetch == message = MsgFailedToFetch
        j1 == [j EXCEPT !.isBackendConnected = IF failedToFetch THEN FALSE ELSE @,
                        !.consecutiveErrors = @ + 1]
        text == IF failedToFetch THEN MsgNoServer ELSE message
        f == Finally(j1, cs, i)
    IN  [js |-> f.js, calls |-> f.calls,
         ui |-> ErrorMessage(text, j1.consecutiveErrors >= MAX_CONSECUTIVE_ERRORS)]

\* getAnalysis without the test of isBackendConnected.
getAnalysisResumeUngated(j, cs, i, d) ==
    LET isInGame == cs[i].inGame.t = "boolean" /\ cs[i].inGame.b
    IN  IF ~isInGame
        THEN [js |-> Finally(j, cs, i).js, calls |-> Finally(j, cs, i).calls,
              ui |-> EarlyMessage(MsgStartGame)]
        ELSE LET j1 == [j EXCEPT !.isAnalyzing = TRUE]
                 fen == getCurrentFEN(d)
             IN  IF ~Truthy(fen) THEN Catch(j1, cs, i, MsgNoPosition)
                 ELSE [js |-> j1,
                       calls |-> [cs EXCEPT ![i].pc = "awaitFetch", ![i].fen = fen],
                       ui |-> NoMessage]
\* getAnalysis from the value of await isInActiveGame() to the fetch.
getAnalysisResume(j, cs, i, d) ==
    LET isInGame == cs[i].inGame.t = "boolean" /\ cs[i].inGame.b
    IN  IF ~isInGame
        THEN [js |-> Finally(j, cs, i).js, calls |-> Finally(j, cs, i).calls,
              ui |-> EarlyMessage(MsgStartGame)]
        ELSE IF ~j.isBackendConnected
        THEN [js |-> Finally(j, cs, i).js, calls |-> Finally(j, cs, i).calls,
              ui |-> EarlyMessage(MsgNoServer)]
        ELSE LET j1 == [j EXCEPT !.isAnalyzing = TRUE]
                 fen == getCurrentFEN(d)
             IN  IF ~Truthy(fen) THEN Catch(j1, cs, i, MsgNoPosition)
                 ELSE [js |-> j1,
                       calls |-> [cs EXCEPT ![i].pc = "awaitFetch", ![i].fen = fen],
                       ui |-> NoMessage]

\* The pages the script is loaded into: with or without the move list, with a
\* board that carries a position or without a board; and one with the move
\* list and a board whose position has 'wb' as side to move.
ClientBoards ==
    {w \in WcBoardSamples : w.present = Truthy(w.position)}
    \cup {[present |-> TRUE, position |-> OddFen]}
ClientPages ==
    {MkDom(b.wc, [present |-> FALSE, attrs |-> <<JsNull, JsNull, JsNull, JsNull>>],
           [kind |-> "absent", value |-> JsUndefined],
           [present |-> FALSE, container |-> FALSE, value |-> JsNull],
           [present |-> FALSE, board |-> FALSE, value |-> JsNull], b.ind) :
        b \in {x \in [wc : ClientBoards, ind : {{}, {"moveList"}}] :
                  x.wc.position = OddFen => x.ind # {}}}

ListInit(text) == [text |-> text, records |-> 0, observing |-> FALSE, changes |-> 0]

\* The state when the script's top level has run: the first health probe is
\* in flight, its interval timer is set, startObserving has run once. Adding
\* the panel to the body has queued a delivery of mutation records if some
\* observer of the page watches the body.
ClientInit ==
    /\ dom \in ClientPages
    /\ extracted = [done |-> FALSE, fen |-> JsNull]
    /\ \E text \in MoveTexts, pageObserves \in BOOLEAN :
         /\ dom.moveList \/ text = <<>>
         /\ LET r == startObserving(
                         Ctx(JsInit, <<>>, IF pageObserves THEN <<"notify">> ELSE <<>>),
                         dom, ListInit(text), [retry |-> FALSE, probes |-> 1])
            IN  /\ js = r.c.js
                /\ calls = r.c.calls
                /\ micro = r.c.micro
                /\ list = r.list
                /\ timers = r.timers
                /\ runs = r.runs
    /\ ui = NoMessage

\* The script is not loaded.
ClientIdle ==
    /\ js = <<>>
    /\ calls = <<>>
    /\ micro = <<>>
    /\ list = <<>>
    /\ timers = <<>>
    /\ ui = <<>>
    /\ runs = <<>>

\* Task: the page adds the move list.
MoveListAppears ==
    /\ micro = <<>>
    /\ ~dom.moveList
    /\ \E text \in MoveTexts :
         /\ dom' = [dom EXCEPT !.moveList = TRUE]
         /\ list' = [list EXCEPT !.text = text]
    /\ ui' = NoMessage
    /\ runs' = <<>>
    /\ UNCHANGED <<js, calls, micro, timers, extracted, serverVars, fenVars, checkVars>>

\* The move list after a mutation that leaves it showing text: a record for
\* the observer if it is attached.
Mutated(l, text) ==
    [l EXCEPT !.text = text,
              !.records = IF l.observing THEN @ + 1 ELSE @,
              !.changes = @ + 1]

\* A mutation queues the delivery of the records unless one is queued.
QueueNotify(m) == IF \E k \in 1..Len(m) : m[k] = "notify" THEN m ELSE Append(m, "notify")

\* Task: a script of the page changes the move list, or renders it again
\* with the same text. It may do so several times before the task ends.
PageMutates ==
    /\ micro = <<>> \/ micro = <<"notify">>
    /\ dom.moveList
    /\ list.changes < MaxMoves
    /\ list.records < MaxBatch
    /\ \E text \in MoveTexts :
         /\ list' = Mutated(list, text)
         /\ micro' = IF list.observing THEN QueueNotify(micro) ELSE micro
    /\ ui' = NoMessage
    /\ runs' = <<>>
    /\ UNCHANGED <<js, calls, timers, dom, extracted, serverVars, fenVars, checkVars>>

\* Task: the timeout of startObserving fires.
StartObservingRetry ==
    /\ micro = <<>>
    /\ timers.retry
    /\ LET r == startObserving(Ctx(js, calls, micro), dom, list, timers)
       IN  /\ js' = r.c.js
           /\ calls' = r.c.calls
           /\ micro' = r.c.micro
           /\ list' = r.list
           /\ timers' = r.timers
           /\ runs' = r.runs
    /\ ui' = NoMessage
    /\ UNCHANGED <<dom, extracted, serverVars, fenVars, checkVars>>

\* The index of the oldest invocation suspended at await isInActiveGame().
OldestAwaiting(cs) == CHOOSE i \in 1..Len(cs) :
    /\ cs[i].pc = "awaitInGame"
    /\ \A k \in 1..(i - 1) : cs[k].pc # "awaitInGame"

\* Microtask: the records are delivered. The observers of the page are called
\* in the same pass, those created before moveObserver ahead of it and the
\* others after it: one ahead of it may mutate a node that is observed (which
\* queues the next delivery), one after it may mutate the move list.
Notify ==
    /\ micro # <<>> /\ Head(micro) = "notify"
    /\ \E early \in BOOLEAN, late \in BOOLEAN, text \in MoveTexts :
         /\ early => list.records > 0
         /\ late => /\ list.observing
                    /\ list.changes < MaxMoves
         /\ ~late => text = list.text
         /\ LET m0 == IF early THEN Append(Tail(micro), "notify") ELSE Tail(micro)
                r == moveObserver(Ctx(js, calls, m0), dom, list.text, list.records)
                l1 == [list EXCEPT !.records = 0]
            IN  /\ js' = r.c.js
                /\ calls' = r.c.calls
                /\ runs' = r.runs
                /\ list' = IF late THEN Mutated(l1, text) ELSE l1
                /\ micro' = IF late THEN QueueNotify(r.c.micro) ELSE r.c.micro
    /\ ui' = NoMessage
    /\ UNCHANGED <<timers, dom, extracted, serverVars, fenVars, checkVars>>

\* Microtask: the oldest invocation suspended at await isInActiveGame() goes on.
Resume ==
    /\ micro # <<>> /\ Head(micro) = "resume"
    /\ LET r == getAnalysisResume(js, calls, OldestAwaiting(calls), dom)
       IN  /\ js' = r.js
           /\ calls' = r.calls
           /\ ui' = r.ui
    /\ micro' = Tail(micro)
    /\ runs' = <<>>
    /\ UNCHANGED <<list, timers, dom, extracted, serverVars, fenVars, checkVars>>

\* The statuses of the sample answers.
Statuses == {200, 429, 500}

\* Task: the fetch of invocation i resolves; the invocation goes on to await
\* response.json().
FetchResolves(i, status) ==
    /\ micro = <<>>
    /\ calls[i].pc = "awaitFetch"
    /\ calls' = [calls EXCEPT ![i].pc = "awaitJson", ![i].status = status]
    /\ ui' = NoMessage
    /\ runs' = <<>>
    /\ UNCHANGED <<js, micro, list, timers, dom, extracted, serverVars, fenVars, checkVars>>

\* Task: the fetch of invocation i rejects ('Failed to fetch').
FetchRejects(i) ==
    /\ micro = <<>>
    /\ calls[i].pc = "awaitFetch"
    /\ LET r == Catch(js, calls, i, MsgFailedToFetch)
       IN  /\ js' = r.js
           /\ calls' = r.calls
           /\ ui' = r.ui
    /\ runs' = <<>>
    /\ UNCHANGED <<micro, list, timers, dom, extracted, serverVars, fenVars, checkVars>>

\* The error field of an error body: none, or the text of the service's 500.
ErrorFields == {"", "Failed to generate move suggestion"}

\* Task: response.json() of invocation i settles: the body parses or not, and
\* an error body has the field error or not.
JsonSettles(i, parses, error) ==
    /\ micro = <<>>
    /\ calls[i].pc = "awaitJson"
    /\ LET ok == calls[i].status = 200
           r == IF ~parses THEN Catch(js, calls, i, MsgBadJson)
                ELSE IF ~ok /\ calls[i].status = 429
                THEN Catch(js, calls, i, MsgRateLimit)
                ELSE IF ~ok
                THEN Catch(js, calls, i, IF error # "" THEN error ELSE MsgUnavailable)
                ELSE LET f == Finally([js EXCEPT !.consecutiveErrors = 0,
                                                 !.isBackendConnected = TRUE], calls, i)
                     IN  [js |-> f.js, calls |-> f.calls, ui |-> SuggestionMessage]
       IN  /\ js' = r.js
           /\ calls' = r.calls
           /\ ui' = r.ui
    /\ runs' = <<>>
    /\ UNCHANGED <<micro, list, timers, dom, extracted, serverVars, fenVars, checkVars>>

\* Task: the interval timer fires and checkBackendConnection starts a probe.
ProbeTimer ==
    /\ micro = <<>>
    /\ js.connectionCheckInterval
    /\ timers.probes < MaxProbes
    /\ timers' = [timers EXCEPT !.probes = @ + 1]
    /\ ui' = NoMessage
    /\ runs' = <<>>
    /\ UNCHANGED <<js, calls, micro, list, dom, extracted, serverVars, fenVars, checkVars>>

\* Task: a probe is answered with a 2xx status.
ProbeOk ==
    /\ micro = <<>>
    /\ timers.probes > 0
    /\ timers' = [timers EXCEPT !.probes = @ - 1]
    /\ js' = [js EXCEPT !.isBackendConnected = TRUE, !.connectionCheckInterval = FALSE]
    /\ ui' = NoMessage
    /\ runs' = <<>>
    /\ UNCHANGED <<calls, micro, list, dom, extracted, serverVars, fenVars, checkVars>>

\* Task: a probe is answered with another status, or its fetch rejects.
ProbeFail ==
    /\ micro = <<>>
    /\ timers.probes > 0
    /\ timers' = [timers EXCEPT !.probes = @ - 1]
    /\ js' = [js EXCEPT !.isBackendConnected = FALSE]
    /\ ui' = ProbeMessage(MsgNoServer)
    /\ runs' = <<>>
    /\ UNCHANGED <<calls, micro, list, dom, extracted, serverVars, fenVars, checkVars>>

ClientNext ==
    \/ MoveListAppears
    \/ PageMutates
    \/ StartObservingRetry
    \/ Notify
    \/ Resume
    \/ \E i \in 1..Len(calls), status \in Statuses : FetchResolves(i, status)
    \/ \E i \in 1..Len(calls) : FetchRejects(i)
    \/ \E i \in 1..Len(calls), parses \in BOOLEAN, error \in ErrorFields :
         JsonSettles(i, parses, error)
    \/ ProbeTimer
    \/ ProbeOk
    \/ ProbeFail

(***************************************************************************)
(* Specifications                                                          *)
(***************************************************************************)
ServerStill ==
    /\ nodeEnv = ""
    /\ storage = <<>>
    /\ pending = [ip \in IPs |-> 0]
    /\ watch = NoWatch
    /\ resp = NoResponse
    /\ win = [k \in Keys |-> NoWindow]
    /\ healthResp = NoHealth

ServerStart == ServerInit /\ FenIdle /\ ExtractIdle /\ ClientIdle /\ GameCheckIdle
ServerSpec == ServerStart /\ [][ServerNext]_vars

FenStart == FenInit /\ ServerStill /\ ExtractIdle /\ ClientIdle /\ GameCheckIdle
FenSpec == FenStart /\ [][FenNext]_vars

ExtractStart == ExtractInit /\ ServerStill /\ FenIdle /\ ClientIdle /\ GameCheckIdle
ExtractSpec == ExtractStart /\ [][ExtractNext]_vars

ClientStart == ClientInit /\ ServerStill /\ FenIdle /\ GameCheckIdle
ClientSpec == ClientStart /\ [][ClientNext]_vars

\* The timeout of a retry fires.
GameCheckStart == GameCheckInit /\ ServerStill /\ FenIdle /\ ClientIdle
GameCheckSpec == GameCheckStart /\ [][GameCheckNext]_vars /\ WF_vars(GameCheckRetry)

\* The event loop runs every queued microtask, and every request the script
\* sent is answered or fails and its body is read or fails to be.
FetchSettles ==
    \/ \E i \in 1..Len(calls), status \in Statuses : FetchResolves(i, status)
    \/ \E i \in 1..Len(calls) : FetchRejects(i)
BodySettles ==
    \E i \in 1..Len(calls), parses \in BOOLEAN, error \in ErrorFields :
        JsonSettles(i, parses, error)
\* Notify is enabled exactly when a delivery heads the queue, and it always
\* takes that entry off: weak fairness of Notify, with its enabling condition
\* written as that state predicate.
NotifyEnabled == micro # <<>> /\ Head(micro) = "notify"
NotifyFairness == []<>(~NotifyEnabled) \/ []<><<Notify>>_vars
\* The same for the timeout of startObserving, which fires when the script is
\* idle and takes a step unless it finds no element and sets itself again.
RetryEnabled == micro = <<>> /\ timers.retry /\ dom.moveList
RetryFairness == []<>(~RetryEnabled) \/ []<><<StartObservingRetry>>_vars
ClientFairness ==
    /\ NotifyFairness
    /\ WF_vars(Resume)
    /\ WF_vars(FetchSettles)
    /\ WF_vars(BodySettles)
    /\ RetryFairness
ClientLiveSpec == ClientStart /\ [][ClientNext]_vars /\ ClientFairness

(***************************************************************************)
(* Claims about the in-flight guard, checked under ClientSpec              *)
(***************************************************************************)
\* The invocations whose POST /suggest-move has been sent and not answered.
Outstanding == {i \in 1..Len(calls) : calls[i].pc = "awaitFetch"}

\* C1 (as stated): at most one POST /suggest-move issued by getAnalysis is
\* outstanding at any time, whatever the order of triggers, awaits and
\* completions.
C1_SingleFlight == Cardinality(Outstanding) <= 1

(***************************************************************************)
(* Claims about the backend, checked under ServerSpec                      *)
(***************************************************************************)
\* A response whose request the model followed from its arrival.
Answered == resp.status # 0 /\ resp.watched

\* C2 (as stated): a request answered 400 called no oracle and left the
\* caller's consumed points as they were, and a request without gameState is
\* answered 400 whatever the caller's quota.
C2_Free400 ==
    /\ resp.status = 400 => ~resp.oracle /\ resp.consumedAfter = resp.consumedBefore
    /\ Answered /\ ~resp.hasGameState => resp.status = 400

\* C2 (amended): a request answered 400 called no oracle and cost the caller
\* exactly the one point the middleware consumed before the handler ran; a
\* request without gameState is answered 400 while the caller's window quota
\* is not exhausted and 429 once it is.
C2_Charged400 ==
    /\ resp.status = 400 => ~resp.oracle /\ resp.consumedAfter = resp.consumedBefore + 1
    /\ Answered /\ ~resp.hasGameState =>
           resp.status = (IF resp.consumedBefore >= Points THEN 429 ELSE 400)

\* A 400 for a missing gameState that took the caller's last point.
C2_Witness ==
    resp.status = 400 /\ ~resp.hasGameState /\ resp.consumedAfter = Points

\* C3: a request of a caller whose window quota is exhausted is answered 429,
\* and a 429 carries a non-negative retryAfter and is sent without an oracle call.
C3_Exhausted429 ==
    /\ Answered /\ resp.before = 0 => resp.status = 429
    /\ resp.status = 429 => resp.retryAfter >= 0 /\ ~resp.oracle

C3_Witness == resp.status = 429 /\ resp.before = 0 /\ resp.retryAfter > 0

\* C4: in production each caller's first 10 requests of a window pass the
\* quota check and its 11th and later ones are answered 429, whatever the
\* other callers send in between.
C4_ProductionCap ==
    isProduction /\ Answered =>
        /\ resp.nth <= 10 => resp.status # 429
        /\ resp.nth >= 11 => resp.status = 429

\* A caller's 11th request is refused while another caller has a record.
C4_Witness ==
    /\ isProduction /\ resp.nth = 11 /\ resp.status = 429
    /\ \E k \in DOMAIN storage : k # resp.key

\* C5 (as stated): the remainingRequests of a 200 is one less than the
\* allowance the charged caller had when the request arrived.
C5_DecrementByOne ==
    resp.status = 200 /\ resp.watched /\ ~resp.lookupThrew =>
        resp.remainingRequests = resp.before - 1

\* The points on a caller's record, 0 without a record.
StoredConsumed(st, key) == IF key \in DOMAIN st THEN st[key].value ELSE 0

\* C6 (as stated): getRemainingRequests returns max(0, cap - consumed) under
\* the configured cap, the cap itself without a record, never a negative.
C6_RemainingUnderCap ==
    resp.status = 200 /\ ~resp.lookupThrew =>
        /\ resp.remainingRequests = Max(0, Points - StoredConsumed(storage, resp.ip))
        /\ resp.remainingRequests >= 0

\* C7: the step that reads the remaining allowance for the 200 response
\* leaves every caller's record as it was, also when the lookup throws.
C7_ReadOnly == [][resp'.status = 200 => storage' = storage]_serverVars

\* A 200 whose lookup found the caller's record.
C7_Witness ==
    resp.status = 200 /\ ~resp.lookupThrew /\ resp.ip \in DOMAIN storage

(***************************************************************************)
(* Claims about the watcher (ClientSpec), the validator (FenSpec) and the  *)
(* extractor (ExtractSpec)                                                 *)
(***************************************************************************)
\* The i-th analyzeMoves call of the step left moveCount and lastMoves as
\* they were and did not invoke getAnalysis.
RunSkipped(i) ==
    /\ runs[i].invoked = 0
    /\ runs[i].countAfter = runs[i].countBefore
    /\ runs[i].lastAfter = runs[i].lastBefore

\* C8: an analyzeMoves call that finds the trimmed text of the move list
\* equal to lastMoves does not invoke getAnalysis and leaves moveCount and
\* lastMoves unchanged; so does every call of a batch after the call that
\* saw the change.
C8_SameTextSkipped ==
    \A i \in 1..Len(runs) :
        /\ runs[i].found /\ runs[i].moves = runs[i].lastBefore => RunSkipped(i)
        /\ \A k \in 1..(i - 1) : runs[k].moves # runs[k].lastBefore => RunSkipped(i)

\* A callback with two records: the first call saw a new text and invoked
\* getAnalysis, the second found the text equal to lastMoves.
C8_Witness ==
    /\ Len(runs) >= 2
    /\ runs[1].invoked = 1
    /\ runs[2].found /\ runs[2].moves = runs[2].lastBefore
    /\ runs[2].invoked = 0

\* The shape the validator is said to accept: six fields separated by single
\* spaces; eight ranks of eight squares; w or b; - or letters of KQkq; - or
\* a file and rank 3 or 6; two digit strings.
FenShape(v) ==
    /\ v.t = "string"
    /\ LET f == Split(v.s, " ")
       IN  /\ Len(f) = 6
           /\ LET ranks == Split(f[1], "/")
              IN  Len(ranks) = 8 /\ \A r \in 1..8 : RankOk(ranks[r])
           /\ f[2] \in {<<"w">>, <<"b">>}
           /\ f[3] = <<"-">> \/ (f[3] # <<>> /\ AllIn(f[3], CastlingChars))
           /\ f[4] = <<"-">> \/ (Len(f[4]) = 2 /\ f[4][1] \in FileChars /\ f[4][2] \in {"3", "6"})
           /\ f[5] # <<>> /\ AllIn(f[5], DigitChars)
           /\ f[6] # <<>> /\ AllIn(f[6], DigitChars)

\* C9 (as stated): isValidFEN returns true exactly for the strings of that
\* shape; a string with one field off returns false.
C9_ExactShape == fenOut.done => (fenOut.valid <=> FenShape(fenIn))

\* No strategy of getCurrentFEN finds a value that passes isValidFEN.
NoStrategyValid(d) ==
    /\ Method1(d) = JsUndefined
    /\ Method2(d) = JsUndefined
    /\ Method3(d) = JsUndefined
    /\ Method4(d) = JsUndefined

\* C10 (as stated): when no strategy yields a valid value, getCurrentFEN
\* returns the starting position if a game indicator is present and null if
\* none is.
C10_FallbackByHeuristic ==
    extracted.done /\ NoStrategyValid(dom) =>
        extracted.fen = IF GameIndicators(dom) THEN JsStr(STARTING_FEN) ELSE JsNull

(***************************************************************************)
(* Claims about the order of the extraction strategies (ExtractSpec)       *)
(***************************************************************************)
\* What each strategy of the list reads on the page, in the order of the
\* list; JsUndefined where its element is absent or its call throws.
StrategyValues(d) ==
    <<IF d.wcBoard.present THEN d.wcBoard.position ELSE JsUndefined,
      IF d.chessBoard.present THEN d.chessBoard.attrs[1] ELSE JsUndefined,
      IF d.chessBoard.present THEN d.chessBoard.attrs[2] ELSE JsUndefined,
      IF d.chessBoard.present THEN d.chessBoard.attrs[3] ELSE JsUndefined,
      IF d.chessBoard.present THEN d.chessBoard.attrs[4] ELSE JsUndefined,
      IF d.game.kind = "returns" THEN d.game.value ELSE JsUndefined,
      IF d.layoutMain.present /\ d.layoutMain.container THEN d.layoutMain.value
      ELSE JsUndefined,
      IF d.analysisBoard.present /\ d.analysisBoard.board THEN d.analysisBoard.value
      ELSE JsUndefined>>

RECURSIVE FirstValidValue(_, _)
\* The first value of the list that passes isValidFEN, JsUndefined if none does.
FirstValidValue(values, i) ==
    IF i > Len(values) THEN JsUndefined
    ELSE IF isValidFENOf(values[i]) THEN values[i]
    ELSE FirstValidValue(values, i + 1)

\* C11 (as stated): getCurrentFEN returns, unmodified, the value of the first
\* strategy of the list whose value passes isValidFEN, for every combination
\* of elements present and values valid; each strategy is tried whatever the
\* others found on the page.
C11_FirstValidWins ==
    extracted.done /\ FirstValidValue(StrategyValues(dom), 1) # JsUndefined =>
        extracted.fen = FirstValidValue(StrategyValues(dom), 1)

(***************************************************************************)
(* Claims about the preconditions of getAnalysis (ClientSpec)              *)
(***************************************************************************)
\* The invocations of cs whose POST /suggest-move is outstanding.
Fetching(cs) == {i \in 1..Len(cs) : cs[i].pc = "awaitFetch"}

\* The step resumes an invocation suspended at await isInActiveGame().
ResumeStep == micro # <<>> /\ Head(micro) = "resume"

\* The precondition the resuming invocation fails, "" if it fails none.
FailedPrecondition ==
    LET c == calls[OldestAwaiting(calls)]
    IN  IF ~(c.inGame.t = "boolean" /\ c.inGame.b) THEN "game"
        ELSE IF ~js.isBackendConnected THEN "backend"
        ELSE IF ~Truthy(getCurrentFEN(dom)) THEN "position"
        ELSE ""

PreconditionText(which) ==
    CASE which = "game" -> MsgStartGame
      [] which = "backend" -> MsgNoServer
      [] which = "position" -> MsgNoPosition

\* C12: an invocation that passed the guard and fails a precondition sends
\* one ERROR message, whose text is the one of that precondition and differs
\* from the texts of the other two, issues no POST /suggest-move and ends.
C12_PreconditionErrors ==
    [][ResumeStep /\ FailedPrecondition # "" =>
          /\ ui'.type = "ERROR"
          /\ ui'.error = PreconditionText(FailedPrecondition)
          /\ \A other \in {"game", "backend", "position"} \ {FailedPrecondition} :
                 PreconditionText(other) # ui'.error
          /\ Cardinality(Fetching(calls')) = Cardinality(Fetching(calls))
          /\ Len(calls') = Len(calls) - 1]_vars

\* An invocation was stopped at the connectivity precondition.
C12_Witness ==
    /\ ui = EarlyMessage(MsgNoServer)
    /\ ~js.isBackendConnected
    /\ js.consecutiveErrors = 0
    /\ ~js.isAnalyzing

(***************************************************************************)
(* Claims about the error counter (ClientSpec)                             *)
(***************************************************************************)
\* The step runs the catch block of getAnalysis.
CaughtStep == ui'.by = "catch"

\* C13: a successful suggestion response resets consecutiveErrors to 0, a
\* failure handled by the catch block increments it by exactly 1 and its
\* message carries the refresh hint exactly when the incremented counter is
\* at least MAX_CONSECUTIVE_ERRORS; no other step changes the counter, so the
\* hint is carried from the third consecutive failure since the last success.
C13_ErrorCounter ==
    [][/\ ui'.type = "SUGGESTION" => js'.consecutiveErrors = 0
       /\ CaughtStep =>
              /\ js'.consecutiveErrors = js.consecutiveErrors + 1
              /\ ui'.hint <=> js'.consecutiveErrors >= MAX_CONSECUTIVE_ERRORS
       /\ ui'.type # "SUGGESTION" /\ ~CaughtStep =>
              /\ js'.consecutiveErrors = js.consecutiveErrors
              /\ ~ui'.hint]_vars

\* The third failure in a row: its message carries the hint.
C13_Witness ==
    /\ ui.type = "ERROR" /\ ui.by = "catch" /\ ui.hint
    /\ js.consecutiveErrors = MAX_CONSECUTIVE_ERRORS

(***************************************************************************)
(* Claims about the health probe (ClientSpec)                              *)
(***************************************************************************)
\* The step settles a probe: checkBackendConnection goes on after its fetch.
ProbeSettles == timers'.probes = timers.probes - 1
ProbeFailed == ProbeSettles /\ ui'.by = "checkBackendConnection"
ProbeSucceeded == ProbeSettles /\ ui'.by # "checkBackendConnection"

\* The step is the catch block of getAnalysis for a rejected fetch.
NetworkFailure == CaughtStep /\ ui'.error = MsgNoServer

\* C14 (as stated): a failed probe sets isBackendConnected to false, sends
\* the connectivity ERROR message and leaves the timer as it is; a successful
\* probe sets isBackendConnected to true and cancels the timer; and once the
\* timer is cancelled isBackendConnected stays true until a suggestion
\* request fails with a network error, also when probes overlap.
C14_ProbeContract ==
    [][/\ ProbeFailed =>
              /\ ~js'.isBackendConnected
              /\ ui' = ProbeMessage(MsgNoServer)
              /\ js'.connectionCheckInterval = js.connectionCheckInterval
       /\ ProbeSucceeded =>
              /\ js'.isBackendConnected
              /\ ~js'.connectionCheckInterval
       /\ ~js.connectionCheckInterval /\ js.isBackendConnected /\ ~NetworkFailure =>
              js'.isBackendConnected]_vars

(***************************************************************************)
(* Claims about the connectivity gate after a network failure (ClientSpec) *)
(***************************************************************************)
\* C15: a rejected suggestion fetch leaves isBackendConnected false (and the
\* guard released); while isBackendConnected stays false the guard stays
\* released, so no later call is dropped by it, and every invocation that
\* resumes while it is false sends the connectivity ERROR message and issues
\* no fetch.
C15_GatedAfterNetworkFailure ==
    [][/\ NetworkFailure => ~js'.isBackendConnected /\ ~js'.isAnalyzing
       /\ ~js.isBackendConnected /\ ~js.isAnalyzing /\ ~js'.isBackendConnected =>
              ~js'.isAnalyzing
       /\ ResumeStep /\ ~js.isBackendConnected =>
              /\ ui' = EarlyMessage(MsgNoServer)
              /\ Fetching(calls') = Fetching(calls)
              /\ Len(calls') = Len(calls) - 1]_vars

\* After a rejected fetch (the one error counted) a later invocation was
\* stopped at the gate.
C15_Witness ==
    /\ ui = EarlyMessage(MsgNoServer)
    /\ ~js.isBackendConnected
    /\ ~js.connectionCheckInterval
    /\ js.consecutiveErrors > 0

(***************************************************************************)
(* Claims about GET /health (ServerSpec)                                   *)
(***************************************************************************)
\* C16: every GET /health is answered 200 with status 'ok', whatever the
\* service state and the caller's quota, and the step that answers it changes
\* no caller's record and starts no oracle call.
C16_HealthAlwaysOk ==
    [][healthResp'.status # 0 =>
          /\ healthResp'.status = 200 /\ healthResp'.body = "ok"
          /\ ~healthResp'.oracle
          /\ storage' = storage
          /\ pending' = pending]_vars

\* A health check answered for a caller whose quota is exhausted, while a
\* suggestion request is suspended at the oracle.
C16_Witness ==
    /\ healthResp.status = 200
    /\ healthResp.exhausted
    /\ InFlight > 0

(***************************************************************************)
(* Claims about the two position checks (FenSpec)                          *)
(***************************************************************************)
\* C17 (as stated): every string the backend's regular expression matches
\* is accepted by isValidFEN.
C17_ServerStricter ==
    fenOut.done /\ fenOut.matchDone /\ fenOut.matched => fenOut.valid

(***************************************************************************)
(* Claims about the 500 response (ServerSpec)                              *)
(***************************************************************************)
\* C18 (as stated): a request whose oracle call throws is answered 500 with
\* error 'Failed to generate move suggestion', and in every environment other
\* than development its details field is the generic 'Internal server error'.
C18_DetailsRedacted ==
    resp.status = 500 =>
        /\ resp.error = "Failed to generate move suggestion"
        /\ nodeEnv # "development" => resp.details = "Internal server error"

(***************************************************************************)
(* Claims about the release of the in-flight guard (ClientSpec)            *)
(***************************************************************************)
\* C19 (as stated): isAnalyzing is true whenever a POST /suggest-move issued
\* by getAnalysis is outstanding; no other invocation's early return or
\* finally block releases the guard meanwhile.
C19_GuardHeldWhileOutstanding == Fetching(calls) # {} => js.isAnalyzing

\* The invocations whose request is under way: sent, or answered with the
\* body still being read.
UnderWay(cs) == {i \in 1..Len(cs) : cs[i].pc \in {"awaitFetch", "awaitJson"}}

ChangedRuns(rs) ==
    {k \in 1..Len(rs) : rs[k].found /\ rs[k].moves # rs[k].lastBefore}

\* The step ran analyzeMoves with a changed text while isAnalyzing was set.
DroppedTrigger == js.isAnalyzing /\ ChangedRuns(runs') # {}

\* C21: an analyzeMoves call that finds the text different from lastMoves
\* adds exactly 1 to moveCount, makes lastMoves the text and invokes
\* getAnalysis exactly once, also when the guard drops the invocation. A
\* dropped invocation leaves nothing behind: in a step that calls
\* analyzeMoves the suspended invocations grow by one per changed text if the
\* guard is clear and not at all if it is set, each new one carries the move
\* of its text, and no other step adds an invocation.
C21_ChangedTextTriggersOnce ==
    /\ [](\A k \in ChangedRuns(runs) :
            /\ runs[k].countAfter = runs[k].countBefore + 1
            /\ runs[k].lastAfter = runs[k].moves
            /\ runs[k].invoked = 1)
    /\ [][/\ Len(calls') <= Len(calls) \/ SubSeq(calls', 1, Len(calls)) = calls
          /\ Len(calls') > Len(calls) =>
                /\ ~js.isAnalyzing
                /\ Len(calls') = Len(calls) + Cardinality(ChangedRuns(runs'))
                /\ \A i \in (Len(calls) + 1)..Len(calls') :
                     /\ calls'[i].pc = "awaitInGame"
                     /\ \E k \in ChangedRuns(runs') :
                          calls'[i].lastMove = formatGameState(runs'[k].moves.s).lastMove
          /\ DroppedTrigger => calls' = calls /\ Len(micro') <= Len(micro)]_vars

\* A callback found a new text while a request was outstanding: moveCount
\* and lastMoves moved on, getAnalysis was invoked and returned at its guard.
C21_Witness ==
    /\ js.isAnalyzing
    /\ Fetching(calls) # {}
    /\ \E k \in ChangedRuns(runs) :
         /\ runs[k].invoked = 1
         /\ runs[k].lastAfter = js.lastMoves
         /\ runs[k].lastBefore # JsNull

(***************************************************************************)
(* Claims about the attachment of the observer (ClientSpec with fairness)  *)
(***************************************************************************)
\* The step attaches moveObserver to the move list.
Attaches == ~list.observing /\ list'.observing

\* C22: as long as the observer is not attached a call of startObserving is
\* scheduled, however many attempts have failed, and once it is attached
\* none is; the attempt that finds the element attaches the observer, runs
\* analyzeMoves once and schedules nothing; an attempt that finds no element
\* schedules the next; the observer stays attached; and once the element is
\* on the page the observer is eventually attached.
C22_AttachRetried ==
    /\ [](timers.retry <=> ~list.observing)
    /\ [](list.observing => dom.moveList)
    /\ [][/\ list.observing => list'.observing
          /\ Attaches => /\ dom.moveList
                         /\ ~timers'.retry
                         /\ Len(runs') = 1 /\ runs'[1].found
          /\ ~list.observing /\ ~Attaches => timers'.retry /\ runs' = <<>>]_vars
    /\ dom.moveList ~> list.observing

\* The observer was attached by an attempt made after the health probe had
\* answered, i.e. by a retry and not by the call at load time: analyzeMoves
\* ran once, with lastMoves still null, and no attempt is scheduled.
C22_Witness ==
    /\ list.observing
    /\ ~timers.retry
    /\ js.isBackendConnected
    /\ Len(runs) = 1
    /\ runs[1].lastBefore = JsNull

(***************************************************************************)
(* Claims about the retries of isInActiveGame (GameCheckSpec)              *)
(***************************************************************************)
\* C23: a call of isInActiveGame evaluates the indicators at most
\* MAX_RETRIES + 1 = 4 times, one evaluation per step; it waits for a next
\* evaluation only after one that found nothing and was not the 4th; it
\* yields what its last evaluation found, so true at the first evaluation
\* that finds an indicator and false only when the 4th found none; and a call
\* that waits comes to its end.
C23_BoundedRetries ==
    /\ [](gameCheck.evaluations <= 4 /\ gameCheck.evaluations <= MAX_RETRIES + 1)
    /\ [](gameCheck.pc = "timer" => ~gameCheck.found /\ gameCheck.evaluations < 4)
    /\ [](gameCheck.pc = "done" =>
            /\ gameCheck.value = gameCheck.found
            /\ ~gameCheck.value => gameCheck.evaluations = 4)
    /\ [][/\ gameCheck'.evaluations \in {gameCheck.evaluations, gameCheck.evaluations + 1}
          /\ gameCheck.pc = "done" => gameCheck' = gameCheck]_vars
    /\ gameCheck.pc = "timer" ~> gameCheck.pc = "done"

\* A call that found no indicator four times and yields false through the
\* promise it returned.
C23_Witness ==
    /\ gameCheck.pc = "done"
    /\ gameCheck.first = "promise"
    /\ ~gameCheck.value
    /\ gameCheck.evaluations = 4

\* A call that yields true at its third evaluation, the page having changed.
C23_WitnessFound ==
    /\ gameCheck.pc = "done"
    /\ gameCheck.value
    /\ gameCheck.evaluations = 3

(***************************************************************************)
(* Claims about the state after the probe timer is cancelled               *)
(* (ClientSpec with fairness)                                              *)
(***************************************************************************)
\* The timer is cancelled and the catch block of getAnalysis has just set
\* isBackendConnected to false for a fetch that could not reach the network.
UnreachableAfterCancel ==
    /\ ~js.connectionCheckInterval
    /\ ui.by = "catch" /\ ui.error = MsgNoServer
    /\ ~js.isBackendConnected

\* C24 (as stated): once the probe timer is cancelled it stays cancelled and
\* no probe is started; and if a suggestion fetch then fails with a network
\* error, isBackendConnected is false from there on in every later state (so
\* that every later invocation stops at the connectivity gate).
C24_NeverReconnects ==
    /\ [][~js.connectionCheckInterval =>
            /\ ~js'.connectionCheckInterval
            /\ timers'.probes <= timers.probes]_vars
    /\ [](UnreachableAfterCancel => [](~js.isBackendConnected))

\* The part of C24 about the timer alone.
C24_NoProbeStarted ==
    [][~js.connectionCheckInterval =>
            /\ ~js'.connectionCheckInterval
            /\ timers'.probes <= timers.probes]_vars

(***************************************************************************)
(* Claims about the quota and a failed oracle call (ServerSpec)            *)
(***************************************************************************)
\* The step suspends a followed request at the oracle call: it has passed
\* the quota check and the validation.
FollowedStep == ~watch.on /\ watch'.on

\* C25: a request that passes the middleware and the validation has had
\* exactly one point consumed for its caller when it reaches the oracle
\* call, and the 500 that answers it when the oracle call fails leaves every
\* caller's record as it is: the point is not given back.
C25_FailureCostsPoint ==
    [][/\ FollowedStep =>
            /\ LiveConsumed(storage', watch'.key) = LiveConsumed(storage, watch'.key) + 1
            /\ watch'.before = Allowance(storage', watch'.key) + 1
            /\ \A k \in Keys \ {watch'.key} :
                   LiveConsumed(storage', k) = LiveConsumed(storage, k)
       /\ resp'.status = 500 => resp'.oracle /\ storage' = storage]_vars

\* A caller is refused with 429 at the 11th request of the first window, all
\* requests before it having been followed to a failed oracle call: the
\* failures alone have used up the quota.
C25_Witness ==
    /\ resp.status = 429
    /\ resp.nth = Points + 1
    /\ win[resp.key].allFailed
    /\ ~watch.on
    /\ \A ip \in IPs : pending[ip] = 0

(***************************************************************************)
(* Claims about the request body and the backend's validation (ClientSpec, *)
(* FenSpec)                                                                *)
(***************************************************************************)
\* The body of the POST /suggest-move of invocation i, as the handler reads it.
BodyOf(i) == [gameState |-> calls[i].fen, currentMove |-> JsStr(calls[i].lastMove)]

\* C26 (as stated): every body getAnalysis sends passes the handler's
\* validation: its gameState matches the regex and its currentMove is not
\* empty, so the request is not answered 400.
C26_BodiesAccepted ==
    \A i \in Fetching(calls) : suggestMoveValidate(BodyOf(i)).status # 400

\* The part of C26 about currentMove alone.
C26_CurrentMovePresent ==
    \A i \in Fetching(calls) : Truthy(BodyOf(i).currentMove)

\* The part of C26 about the two validators alone: a string isValidFEN
\* accepts matches the backend's regex.
C26_ValidMatches ==
    fenOut.done /\ fenOut.valid /\ fenOut.matchDone => fenOut.matched

=============================================================================
